---- MODULE Spec2Model ----
(***************************************************************************)
(* Blog post CRUD service (src/main.py): FastAPI handlers over a document  *)
(* store.  The store is the "blogpost" collection, kept as the sequence of *)
(* its documents in natural (insertion) order.                             *)
(*                                                                         *)
(* Python's None is the empty sequence and a present value v is <<v>>, so  *)
(* that Optional[...] values of every type stay comparable.                *)
(***************************************************************************)
EXTENDS Integers, Sequences, FiniteSets, TLC

VARIABLES
    db,         \* the store handle of line 8: TRUE when it is not None
    ObjectId,   \* the name bound at lines 10-13: TRUE when bson was imported
    store,      \* documents of db["blogpost"], in natural order
    nextOid,    \* the store's next fresh _id
    now,        \* the wall clock read by datetime.utcnow()
    resp,       \* the last HTTP response sent: its handler and status code
    deleted,    \* history: the _ids delete_post has removed
    created,    \* history: <<id, post>> as create_post returned them, for the
                \* posts no update or delete has touched since
    pend        \* per client: the request it is in the middle of

vars == <<db, ObjectId, store, nextOid, now, resp, deleted, created, pend>>

---------------------------------------------------------------------------
(* Bounds *)

MaxPosts == 2       \* documents ever inserted
MaxTime == 1        \* clock ticks
OidLen == 4         \* hex digits of an identifier (scaled down)
FirstOid == 10      \* the first _id the store hands out

LimitMin == 1
LimitMax == 100

Clients == {"c1", "c2"}

---------------------------------------------------------------------------
(* Optional values *)

None == <<>>
Some(v) == <<v>>

---------------------------------------------------------------------------
(* Identifiers: ObjectId(str) and str(ObjectId) *)

HexDigits == <<"0", "1", "2", "3", "4", "5", "6", "7", "8", "9",
               "a", "b", "c", "d", "e", "f">>

UpperDigits == <<"0", "1", "2", "3", "4", "5", "6", "7", "8", "9",
                 "A", "B", "C", "D", "E", "F">>

\* the value of one character as a hex digit, -1 when it is none
DigitVal(c) ==
    IF \E i \in 1..16 : HexDigits[i] = c
    THEN (CHOOSE i \in 1..16 : HexDigits[i] = c) - 1
    ELSE IF \E i \in 1..16 : UpperDigits[i] = c
    THEN (CHOOSE i \in 1..16 : UpperDigits[i] = c) - 1
    ELSE -1

RECURSIVE Pow16(_)
Pow16(k) == IF k = 0 THEN 1 ELSE 16 * Pow16(k - 1)

\* the lower-case hex rendering of an _id
hex(oid) ==
    [i \in 1..OidLen |-> HexDigits[((oid \div Pow16(OidLen - i)) % 16) + 1]]

\* str(oid), tabulated for the _ids requests and the store can name
StrOf == [oid \in FirstOid..(FirstOid + MaxPosts) |-> hex(oid)]

str(oid) == StrOf[oid]

is_valid(s) ==
    /\ Len(s) = OidLen
    /\ \A i \in 1..Len(s) : DigitVal(s[i]) >= 0

RECURSIVE HexValue(_)
HexValue(s) ==
    IF s = <<>> THEN 0
    ELSE 16 * HexValue(SubSeq(s, 1, Len(s) - 1)) + DigitVal(s[Len(s)])

ToUpper(s) == [i \in 1..Len(s) |-> IF DigitVal(s[i]) >= 0
                                    THEN UpperDigits[DigitVal(s[i]) + 1]
                                    ELSE s[i]]

\* well-formed identifiers: every _id the store can hand out and one it never does
WellFormedIds == {str(n) : n \in FirstOid..(FirstOid + MaxPosts)}

MalformedIds ==
    { SubSeq(str(FirstOid), 1, OidLen - 1),
      [str(FirstOid) EXCEPT ![1] = "z"],
      <<"n", "o", "t", "-", "a", "-", "v", "a", "l", "i", "d", "-", "i", "d">> }

PostIdInputs == WellFormedIds \cup {ToUpper(str(FirstOid))} \cup MalformedIds

\* ObjectId(s) for every identifier a request carries: the _id, or None when
\* the constructor raises InvalidId
ObjectIdOf == [s \in PostIdInputs |-> IF is_valid(s) THEN Some(HexValue(s)) ELSE None]

\* the except clause swallowing InvalidId instead of answering 400
ParseObjectId_Swallow(post_id) ==
    IF ~ObjectId THEN [raised |-> FALSE, oid |-> None]
    ELSE [raised |-> FALSE, oid |-> ObjectIdOf[post_id]]

\* "oid = ObjectId(post_id) if ObjectId else None" inside its try/except
ParseObjectId(post_id) ==
    IF ~ObjectId THEN [raised |-> FALSE, oid |-> None]
    ELSE IF ObjectIdOf[post_id] # None THEN [raised |-> FALSE, oid |-> ObjectIdOf[post_id]]
    ELSE [raised |-> TRUE, oid |-> None]

---------------------------------------------------------------------------
(* Payloads *)

PostFields == {"title", "content", "cover_image", "tags", "author"}

\* BlogPost bodies accepted by request validation (schemas.BlogPost)
BlogPost ==
    { [title |-> "t1", content |-> "c1", cover_image |-> None,
       tags |-> <<"pottery", "glaze">>, author |-> Some("ann")] }

\* UpdatePost: every field Optional, default None.  NoUpdate is the body {} and
\* the body with every field null alike.
NoUpdate ==
    [title |-> None, content |-> None, cover_image |-> None,
     tags |-> None, author |-> None]

UpdatePost ==
    { NoUpdate,
      [NoUpdate EXCEPT !.title = Some("t2")],
      [title |-> Some("t2"), content |-> Some("c2"), cover_image |-> Some("img2"),
       tags |-> Some(<<"Pottery">>), author |-> Some("bob")] }

\* payload.model_dump(): the null fields kept
model_dump_KeepNone(payload) ==
    [f \in DOMAIN payload |-> IF payload[f] = None THEN None ELSE payload[f][1]]

\* payload.model_dump(exclude_none=True)
model_dump_exclude_none(payload) ==
    [f \in {g \in DOMAIN payload : payload[g] # None} |-> payload[f][1]]

\* post.model_dump()
model_dump(post) == post

---------------------------------------------------------------------------
(* Store operations *)

\* find_one({"_id": oid}): the document, or None
find_one(s, oid) ==
    IF \E i \in 1..Len(s) : s[i]._id = oid
    THEN s[CHOOSE i \in 1..Len(s) : s[i]._id = oid]
    ELSE None

\* the result of update_one taken as a match whatever it matched
matched_count_Ignored(s, oid) == 1

matched_count(s, oid) == IF find_one(s, oid) # None THEN 1 ELSE 0

\* the update document without "$set": the matched document is replaced
update_one_Replace(s, oid, updates) ==
    [i \in 1..Len(s) |->
        IF s[i]._id = oid
        THEN [f \in {"_id"} \cup DOMAIN updates |->
                 IF f = "_id" THEN oid ELSE updates[f]]
        ELSE s[i]]

\* update_one({"_id": oid}, {"$set": updates}): no upsert
update_one(s, oid, updates) ==
    [i \in 1..Len(s) |->
        IF s[i]._id = oid
        THEN [f \in DOMAIN s[i] \cup DOMAIN updates |->
                 IF f \in DOMAIN updates THEN updates[f] ELSE s[i][f]]
        ELSE s[i]]

RECURSIVE Without(_, _)
Without(s, oid) ==
    IF s = <<>> THEN <<>>
    ELSE IF Head(s)._id = oid THEN Tail(s)
    ELSE <<Head(s)>> \o Without(Tail(s), oid)

\* delete_one({"_id": oid})
delete_one(s, oid) == Without(s, oid)

\* the result of delete_one taken as a deletion whatever it deleted
deleted_count_Ignored(s, oid) == 1

deleted_count(s, oid) == IF find_one(s, oid) # None THEN 1 ELSE 0

\* create_document(collection, data): the document inserted
new_document(post, oid, t) ==
    [f \in DOMAIN model_dump(post) \cup {"_id", "created_at", "updated_at"} |->
        CASE f = "_id" -> oid
          [] f = "created_at" -> t
          [] f = "updated_at" -> t
          [] OTHER -> model_dump(post)[f]]

create_document(s, post, oid, t) == Append(s, new_document(post, oid, t))

HasTag(doc, tag) == \E i \in 1..Len(doc.tags) : doc.tags[i] = tag

RECURSIVE Matching(_, _)
Matching(s, filt) ==
    IF s = <<>> THEN <<>>
    ELSE IF filt = None \/ HasTag(Head(s), filt[1])
         THEN <<Head(s)>> \o Matching(Tail(s), filt)
         ELSE Matching(Tail(s), filt)

Take(s, n) == SubSeq(s, 1, IF Len(s) < n THEN Len(s) ELSE n)

\* get_documents(collection, filter_dict, limit)
get_documents(s, filt, limit) == Take(Matching(s, filt), limit)

---------------------------------------------------------------------------
(* Serialization *)

isoformat(t) == [iso |-> t]

serialize_doc(doc) ==
    IF doc = None THEN doc
    ELSE
    [k \in (DOMAIN doc \ {"_id"}) \cup {"id"} |->
        CASE k = "id" -> str(doc._id)
          [] k \in {"created_at", "updated_at"} -> isoformat(doc[k])
          [] OTHER -> doc[k]]


---------------------------------------------------------------------------
(* Responses *)

Response(op, status, body) == [op |-> op, status |-> status, body |-> body]

HTTPException(op, status_code, detail) ==
    Response(op, status_code, [detail |-> detail])

\* the check of "db is None" answering 503 instead
NotConfigured_503(op) == HTTPException(op, 503, "Database not configured")

NotConfigured(op) == HTTPException(op, 500, "Database not configured")

\* what resp keeps of a response
Sent(r) == [op |-> r.op, status |-> r.status]

Idle == [pc |-> "idle"]

\* The handle is a database of the store's driver, and the driver ships the
\* identifier type: a configured store comes with ObjectId.
Init ==
    /\ db \in BOOLEAN
    /\ ObjectId \in BOOLEAN
    /\ db => ObjectId
    /\ store = <<>>
    /\ nextOid = FirstOid
    /\ now = 0
    /\ resp = [op |-> "none", status |-> 0]
    /\ deleted = {}
    /\ created = {}
    /\ pend = [c \in Clients |-> Idle]

Tick ==
    /\ now < MaxTime
    /\ now' = now + 1
    /\ UNCHANGED <<db, ObjectId, store, nextOid, resp, deleted, created, pend>>

---------------------------------------------------------------------------
(* GET /test *)

\* db.list_collection_names(): the collection exists once a document was inserted
list_collection_names == IF nextOid > FirstOid THEN <<"blogpost">> ELSE <<>>

\* the diagnostic without the else branch of line 73
test_database_response_NoElse(env_url, env_name, raises) ==
    LET r0 == [backend |-> "Running",
               database |-> "Not Available",
               database_url |-> "None",
               database_name |-> "None",
               connection_status |-> "Not Connected",
               collections |-> <<>>]
        r1 == IF db
              THEN [r0 EXCEPT !.database = IF raises THEN "Connected but Error"
                                           ELSE "Connected & Working",
                              !.connection_status = "Connected",
                              !.collections = IF raises THEN <<>>
                                              ELSE Take(list_collection_names, 10)]
              ELSE r0
    IN  Response("test", 200,
                 [r1 EXCEPT !.database_url = IF env_url THEN "Set" ELSE "Not Set",
                            !.database_name = IF env_name THEN "Set" ELSE "Not Set"])

\* env_url, env_name: whether DATABASE_URL, DATABASE_NAME are set;
\* raises: whether db.list_collection_names() throws
test_database_response(env_url, env_name, raises) ==
    LET r0 == [backend |-> "Running",
               database |-> "Not Available",
               database_url |-> "None",
               database_name |-> "None",
               connection_status |-> "Not Connected",
               collections |-> <<>>]
        r1 == IF db
              THEN [r0 EXCEPT !.database = IF raises THEN "Connected but Error"
                                           ELSE "Connected & Working",
                              !.connection_status = "Connected",
                              !.collections = IF raises THEN <<>>
                                              ELSE Take(list_collection_names, 10)]
              ELSE [r0 EXCEPT !.database = "Available but not initialized"]
    IN  Response("test", 200,
                 [r1 EXCEPT !.database_url = IF env_url THEN "Set" ELSE "Not Set",
                            !.database_name = IF env_name THEN "Set" ELSE "Not Set"])

test_database(env_url, env_name, raises) ==
    /\ resp' = Sent(test_database_response(env_url, env_name, raises))
    /\ UNCHANGED <<db, ObjectId, store, nextOid, now, deleted, created, pend>>

---------------------------------------------------------------------------
(* POST /api/posts *)

\* the response echoing the request body instead of the stored document
create_reread_Echo(s, inserted_id, post) ==
    Response("create", 200, [id |-> inserted_id, post |-> model_dump(post)])

\* lines 93-94: re-read the inserted document and build the response
create_reread(s, inserted_id, post) ==
    LET doc == IF ObjectId THEN find_one(s, ObjectIdOf[inserted_id][1]) ELSE None
    IN  Response("create", 200,
                 [id |-> inserted_id,
                  post |-> IF doc # None THEN serialize_doc(doc)
                           ELSE model_dump(post)])

\* the handler's response and the store it leaves
create_post_result(post) ==
    IF ~db THEN [resp |-> NotConfigured("create"), store |-> store]
    ELSE LET s1 == create_document(store, post, nextOid, now)
         IN  [resp |-> create_reread(s1, str(nextOid), post), store |-> s1]

create_post(post) ==
    /\ db => nextOid < FirstOid + MaxPosts
    /\ LET r == create_post_result(post)
       IN  /\ store' = r.store
           /\ resp' = Sent(r.resp)
           /\ nextOid' = IF db THEN nextOid + 1 ELSE nextOid
           /\ created' = IF db THEN created \cup {<<r.resp.body.id, r.resp.body.post>>}
                         ELSE created
    /\ UNCHANGED <<db, ObjectId, now, deleted, pend>>

---------------------------------------------------------------------------
(* GET /api/posts *)

Limits == {LimitMin, LimitMin + 1, LimitMax}

TagInputs == {None, Some(""), Some("pottery"), Some("Pottery"), Some("raku")}

\* the tag never making it into the filter
list_filter_Dropped(tag) == None

\* lines 104-106: "if tag:" is false for None and for the empty string
list_filter(tag) == IF tag # None /\ tag[1] # "" THEN Some(tag[1]) ELSE None

list_posts_response(limit, tag) ==
    IF ~db THEN NotConfigured("list")
    ELSE LET items == get_documents(store, list_filter(tag), limit)
         IN  Response("list", 200, [i \in 1..Len(items) |-> serialize_doc(items[i])])

list_posts(limit, tag) ==
    /\ resp' = Sent(list_posts_response(limit, tag))
    /\ UNCHANGED <<db, ObjectId, store, nextOid, now, deleted, created, pend>>

---------------------------------------------------------------------------
(* GET /api/posts/{post_id} *)

get_post_response(post_id) ==
    IF ~db THEN NotConfigured("get")
    ELSE LET p == ParseObjectId(post_id)
         IN  IF p.raised THEN HTTPException("get", 400, "Invalid post id")
             ELSE LET doc == IF p.oid # None THEN find_one(store, p.oid[1]) ELSE None
                  IN  IF doc = None THEN HTTPException("get", 404, "Post not found")
                      ELSE Response("get", 200, serialize_doc(doc))

get_post(post_id) ==
    /\ resp' = Sent(get_post_response(post_id))
    /\ UNCHANGED <<db, ObjectId, store, nextOid, now, deleted, created, pend>>

---------------------------------------------------------------------------
(* PUT /api/posts/{post_id} *)

\* lines 144-147: the $set document
update_set(payload, t) ==
    LET updates == model_dump_exclude_none(payload)
    IN  [f \in DOMAIN updates \cup {"updated_at"} |->
            IF f = "updated_at" THEN t ELSE updates[f]]

\* lines 135-150: the handler up to its write.  "write" is TRUE when update_one
\* matched and the handler goes on to the re-read of line 151.
update_write(post_id, payload) ==
    LET early(r) == [write |-> FALSE, resp |-> r, store |-> store, oid |-> 0]
    IN
    IF ~db THEN early(NotConfigured("update"))
    ELSE LET p == ParseObjectId(post_id)
         IN  IF p.raised THEN early(HTTPException("update", 400, "Invalid post id"))
             ELSE IF p.oid = None
             THEN early(HTTPException("update", 500, "ObjectId support not available"))
             ELSE IF DOMAIN model_dump_exclude_none(payload) = {}
             THEN early(Response("update", 200, [updated |-> FALSE]))
             ELSE IF matched_count(store, p.oid[1]) = 0
             THEN early(HTTPException("update", 404, "Post not found"))
             ELSE [write |-> TRUE, resp |-> None,
                   store |-> update_one(store, p.oid[1], update_set(payload, now)),
                   oid |-> p.oid[1]]

\* lines 151-152: the re-read and the response
update_reread(s, oid) == Response("update", 200, serialize_doc(find_one(s, oid)))

\* the handler run without interruption: its response and the store it leaves
update_post_result(post_id, payload) ==
    LET w == update_write(post_id, payload)
    IN  [resp |-> IF w.write THEN update_reread(w.store, w.oid) ELSE w.resp,
         store |-> w.store, write |-> w.write, oid |-> w.oid]

Untouched(set, oid) == {e \in set : ObjectIdOf[e[1]] # Some(oid)}

update_post(post_id, payload) ==
    /\ LET r == update_post_result(post_id, payload)
       IN  /\ store' = r.store
           /\ resp' = Sent(r.resp)
           /\ created' = IF r.write THEN Untouched(created, r.oid) ELSE created
    /\ UNCHANGED <<db, ObjectId, nextOid, now, deleted, pend>>

---------------------------------------------------------------------------
(* DELETE /api/posts/{post_id} *)

\* the handler's response and the store it leaves; "gone" is the _id removed
delete_post_result(post_id) ==
    LET keep(r) == [resp |-> r, store |-> store, gone |-> None]
    IN
    IF ~db THEN keep(NotConfigured("delete"))
    ELSE LET p == ParseObjectId(post_id)
         IN  IF p.raised THEN keep(HTTPException("delete", 400, "Invalid post id"))
             ELSE IF p.oid = None \/ deleted_count(store, p.oid[1]) = 0
             THEN keep(HTTPException("delete", 404, "Post not found"))
             ELSE [resp |-> Response("delete", 200, [deleted |-> TRUE]),
                   store |-> delete_one(store, p.oid[1]),
                   gone |-> p.oid]

delete_post(post_id) ==
    /\ LET r == delete_post_result(post_id)
       IN  /\ store' = r.store
           /\ resp' = Sent(r.resp)
           /\ deleted' = IF r.gone # None THEN deleted \cup {r.gone[1]} ELSE deleted
           /\ created' = IF r.gone # None THEN Untouched(created, r.gone[1]) ELSE created
    /\ UNCHANGED <<db, ObjectId, nextOid, now, pend>>

---------------------------------------------------------------------------
(* One request at a time *)

Next ==
    \/ Tick
    \/ \E u \in BOOLEAN, n \in BOOLEAN, r \in BOOLEAN : test_database(u, n, r)
    \/ \E post \in BlogPost : create_post(post)
    \/ \E limit \in Limits, tag \in TagInputs : list_posts(limit, tag)
    \/ \E post_id \in PostIdInputs : get_post(post_id)
    \/ \E post_id \in PostIdInputs, payload \in UpdatePost : update_post(post_id, payload)
    \/ \E post_id \in PostIdInputs : delete_post(post_id)

Spec == Init /\ [][Next]_vars

---------------------------------------------------------------------------
(* Requests served concurrently: the handlers run in a thread pool, so the  *)
(* two store calls of update_post (and of create_post) are separate steps.  *)

UpdateWrite(c, post_id, payload) ==
    /\ pend[c] = Idle
    /\ LET w == update_write(post_id, payload)
       IN  /\ store' = w.store
           /\ IF w.write
              THEN /\ pend' = [pend EXCEPT ![c] = [pc |-> "update_reread",
                                                   oid |-> w.oid,
                                                   payload |-> payload]]
                   /\ created' = Untouched(created, w.oid)
                   /\ resp' = resp
              ELSE /\ resp' = Sent(w.resp)
                   /\ UNCHANGED <<pend, created>>
    /\ UNCHANGED <<db, ObjectId, nextOid, now, deleted>>

UpdateReread(c) ==
    /\ pend[c].pc = "update_reread"
    /\ resp' = Sent(update_reread(store, pend[c].oid))
    /\ pend' = [pend EXCEPT ![c] = Idle]
    /\ UNCHANGED <<db, ObjectId, store, nextOid, now, deleted, created>>

CreateInsert(c, post) ==
    /\ pend[c] = Idle
    /\ IF ~db
       THEN /\ resp' = Sent(NotConfigured("create"))
            /\ UNCHANGED <<store, nextOid, pend>>
       ELSE /\ nextOid < FirstOid + MaxPosts
            /\ store' = create_document(store, post, nextOid, now)
            /\ nextOid' = nextOid + 1
            /\ pend' = [pend EXCEPT ![c] = [pc |-> "create_reread",
                                            inserted_id |-> str(nextOid),
                                            post |-> post]]
            /\ resp' = resp
    /\ UNCHANGED <<db, ObjectId, now, deleted, created>>

CreateReread(c) ==
    /\ pend[c].pc = "create_reread"
    /\ LET r == create_reread(store, pend[c].inserted_id, pend[c].post)
       IN  /\ resp' = Sent(r)
           /\ created' = created \cup {<<r.body.id, r.body.post>>}
    /\ pend' = [pend EXCEPT ![c] = Idle]
    /\ UNCHANGED <<db, ObjectId, store, nextOid, now, deleted>>

Delete(c, post_id) == pend[c] = Idle /\ delete_post(post_id)

Get(c, post_id) == pend[c] = Idle /\ get_post(post_id)

NextConc ==
    \/ Tick
    \/ \E c \in Clients, post_id \in PostIdInputs, payload \in UpdatePost :
          UpdateWrite(c, post_id, payload)
    \/ \E c \in Clients : UpdateReread(c)
    \/ \E c \in Clients, post \in BlogPost : CreateInsert(c, post)
    \/ \E c \in Clients : CreateReread(c)
    \/ \E c \in Clients, post_id \in PostIdInputs : Delete(c, post_id)
    \/ \E c \in Clients, post_id \in PostIdInputs : Get(c, post_id)

SpecConc == Init /\ [][NextConc]_vars

---------------------------------------------------------------------------
(* Properties *)

WellFormed(post_id) == ObjectIdOf[post_id] # None

OidOf(post_id) == ObjectIdOf[post_id][1]

Exists(post_id) == WellFormed(post_id) /\ find_one(store, OidOf(post_id)) # None

Supplied(payload) == {f \in PostFields : payload[f] # None}

Docs(s) == {s[i] : i \in 1..Len(s)}

\* C1: with the store handle absent every CRUD handler answers 500, whatever
\* the identifier and the payload, and leaves the store as it was.
C1_AbsentStoreIs500 ==
    ~db =>
        /\ \A post \in BlogPost :
              LET r == create_post_result(post)
              IN  r.resp.status = 500 /\ r.store = store
        /\ \A limit \in Limits, tag \in TagInputs :
              list_posts_response(limit, tag).status = 500
        /\ \A post_id \in PostIdInputs :
              /\ get_post_response(post_id).status = 500
              /\ LET r == delete_post_result(post_id)
                 IN  r.resp.status = 500 /\ r.store = store
              /\ \A payload \in UpdatePost :
                    LET r == update_post_result(post_id, payload)
                    IN  r.resp.status = 500 /\ r.store = store

C1_Witness ==
    /\ ~db
    /\ resp = [op |-> "update", status |-> 500]

C8_ListFiltersByTag ==
    db =>
        \A limit \in Limits, tag \in TagInputs :
            LET body == list_posts_response(limit, tag).body
            IN  /\ Len(body) <= limit
                /\ tag # None =>
                      \A i \in 1..Len(body) :
                          \E j \in 1..Len(body[i].tags) : body[i].tags[j] = tag[1]

\* C8 amended: the same for any non-empty tag string; every post returned
\* is a stored post.
C8_ListFiltersByTag_Amended ==
    db =>
        \A limit \in Limits, tag \in TagInputs :
            LET body == list_posts_response(limit, tag).body
            IN  /\ Len(body) <= limit
                /\ \A i \in 1..Len(body) :
                      \E d \in Docs(store) : body[i] = serialize_doc(d)
                /\ (tag # None /\ tag[1] # "") =>
                      \A i \in 1..Len(body) :
                          \E j \in 1..Len(body[i].tags) : body[i].tags[j] = tag[1]

\* two posts carry "pottery", one does not, and a listing was served
C8_Witness ==
    /\ db
    /\ resp = [op |-> "list", status |-> 200]
    /\ Len(store) >= 2
    /\ \E d \in Docs(store) : HasTag(d, "pottery")
    /\ \E d \in Docs(store) : ~HasTag(d, "pottery") /\ HasTag(d, "Pottery")

\* C9 as claimed: with the store handle absent GET /test answers normally,
\* database reading "Not Available" and connection_status "Not Connected".
C9_DiagnosticNotAvailable ==
    ~db =>
        \A u \in BOOLEAN, n \in BOOLEAN, r \in BOOLEAN :
            LET t == test_database_response(u, n, r)
            IN  /\ t.status = 200
                /\ t.body.database = "Not Available"
                /\ t.body.connection_status = "Not Connected"

\* C9 amended: with the store handle absent GET /test answers normally,
\* database reading "Available but not initialized" and connection_status
\* "Not Connected".
C9_DiagnosticNotInitialized ==
    ~db =>
        \A u \in BOOLEAN, n \in BOOLEAN, r \in BOOLEAN :
            LET t == test_database_response(u, n, r)
            IN  /\ t.status = 200
                /\ t.body.database = "Available but not initialized"
                /\ t.body.connection_status = "Not Connected"
                /\ t.body.collections = <<>>

C9_Witness ==
    /\ ~db
    /\ resp = [op |-> "test", status |-> 200]

\* C10: whenever an update with a non-empty payload answers with success,
\* the body is the post of the requested id with the supplied fields equal to
\* the payload's values, whatever other requests ran between its write and
\* its re-read.
C10_UpdateRespondsWithItsWrite ==
    \A c \in Clients :
        pend[c].pc = "update_reread" =>
            LET r == update_reread(store, pend[c].oid)
            IN  /\ r.body # None
                /\ r.body.id = str(pend[c].oid)
                /\ \A f \in Supplied(pend[c].payload) :
                      r.body[f] = pend[c].payload[f][1]

====
